---- MODULE Spec2Model ----
(***************************************************************************)
(* A model of GenEO/precond.py: the two domain-decomposition               *)
(* preconditioners PCBNN and PCNew, their construction, their apply        *)
(* (mult) and multipreconditioned apply (MP_mult), and the matrix-free     *)
(* operators of the algebraic splitting.                                   *)
(*                                                                         *)
(* Numbers are exact rationals <<n, d>> (d > 0, lowest terms): the code    *)
(* divides (v1/v2, 1/mus, a_values/b_values, the direct solves), so the    *)
(* integers are not closed under what it computes.  Local vectors are      *)
(* sequences indexed by the local dof, global vectors sequences indexed by *)
(* the global dof, matrices sequences of rows.                             *)
(***************************************************************************)
EXTENDS Integers, Sequences, FiniteSets, TLC

\* ------------------------------------------------------------- rationals

Abs(n) == IF n < 0 THEN -n ELSE n

RECURSIVE Gcd(_, _)
Gcd(a, b) == IF b = 0 THEN a ELSE Gcd(b, a % b)

\* n/d in lowest terms with a positive denominator (d # 0).
Norm(n, d) ==
    LET g == Gcd(Abs(n), Abs(d))
        s == IF d < 0 THEN -1 ELSE 1
    IN  <<(s * n) \div g, (s * d) \div g>>

R(n) == <<n, 1>>
Zero == R(0)
One == R(1)
\* The sum over the least common denominator.
RAdd(a, b) ==
    LET g == Gcd(a[2], b[2])
    IN  Norm(a[1] * (b[2] \div g) + b[1] * (a[2] \div g), (a[2] \div g) * b[2])
RNeg(a) == <<-a[1], a[2]>>
RSub(a, b) == RAdd(a, RNeg(b))
\* The product, common factors cancelled before multiplying.
RMul(a, b) ==
    LET g == Gcd(Abs(a[1]), b[2])
        h == Gcd(Abs(b[1]), a[2])
    IN  IF a[1] = 0 \/ b[1] = 0 THEN <<0, 1>>
        ELSE <<(a[1] \div g) * (b[1] \div h), (a[2] \div h) * (b[2] \div g)>>
\* a/b, b # 0.
RDiv(a, b) == RMul(a, IF b[1] < 0 THEN <<-b[2], -b[1]>> ELSE <<b[2], b[1]>>)
RLt(a, b) == a[1] * b[2] < b[1] * a[2]
RLe(a, b) == a[1] * b[2] <= b[1] * a[2]

\* ----------------------------------------------------- vectors, matrices

RECURSIVE SumTo(_, _)
\* f[1] + ... + f[n] for a sequence (or function on 1..n) of rationals.
SumTo(f, n) == IF n = 0 THEN Zero ELSE RAdd(SumTo(f, n - 1), f[n])

\* A vector written to memory: its entries are evaluated once, then held.
Stored1(v) == v \o <<>>

VSum(v) == SumTo(v, Len(v))
VAdd(u, v) == [k \in 1..Len(u) |-> RAdd(u[k], v[k])]
VSub(u, v) == [k \in 1..Len(u) |-> RSub(u[k], v[k])]
VNeg(u) == [k \in 1..Len(u) |-> RNeg(u[k])]
VScale(a, v) == [k \in 1..Len(v) |-> RMul(a, v[k])]
\* Pointwise product and quotient (Vec * Vec, Vec / Vec in petsc4py).
VMul(u, v) == [k \in 1..Len(u) |-> RMul(u[k], v[k])]
VDiv(u, v) == [k \in 1..Len(u) |-> RDiv(u[k], v[k])]
VConst(n, a) == [k \in 1..n |-> a]
Dot(u, v) == VSum(VMul(u, v))
\* y.axpy(a, v): y + a*v.
Axpy(y, a, v) == VAdd(y, VScale(a, v))
MatVec(M, v) == [k \in 1..Len(M) |-> Dot(M[k], v)]
Diagonal(M) == [k \in 1..Len(M) |-> M[k][k]]
\* Mat.diagonalScale(L, R): diag(L) * M * diag(R).
DiagonalScale(M, L, Rr) ==
    [k \in 1..Len(M) |-> [l \in 1..Len(M) |-> RMul(L[k], RMul(M[k][l], Rr[l]))]]
\* The matrix whose columns are the vectors of the sequence C.
Transpose(C) ==
    IF Len(C) = 0 THEN <<>>
    ELSE [k \in 1..Len(C[1]) |-> [c \in 1..Len(C) |-> C[c][k]]]
MAdd(M, N) == [k \in 1..Len(M) |-> VAdd(M[k], N[k])]
IntMat(M) == [k \in 1..Len(M) |-> [l \in 1..Len(M[k]) |-> R(M[k][l])]]
IntVec(v) == [k \in 1..Len(v) |-> R(v[k])]

\* Elimination of the first unknown with the pivot row p (M[p][1] # 0): the
\* remaining rows, the first column dropped.
Pivot(M) == CHOOSE p \in 1..Len(M) : M[p][1] # Zero /\ \A q \in 1..(p - 1) : M[q][1] = Zero
Rest(M, p) == [k \in 1..(Len(M) - 1) |-> IF k < p THEN k ELSE k + 1]
ElimMat(M, p) ==
    [k \in 1..(Len(M) - 1) |->
        LET q == Rest(M, p)[k]
            f == RDiv(M[q][1], M[p][1])
        IN  [l \in 1..(Len(M) - 1) |-> RSub(M[q][l + 1], RMul(f, M[p][l + 1]))]]
ElimRhs(M, b, p) ==
    [k \in 1..(Len(M) - 1) |->
        LET q == Rest(M, p)[k]
        IN  RSub(b[q], RMul(RDiv(M[q][1], M[p][1]), b[p]))]

RECURSIVE Det(_)
\* Determinant, by elimination.
Det(M) ==
    IF Len(M) = 0 THEN One
    ELSE IF \A k \in 1..Len(M) : M[k][1] = Zero THEN Zero
    ELSE LET p == Pivot(M)
             d == RMul(M[p][1], Det(ElimMat(M, p)))
         IN  IF p % 2 = 1 THEN d ELSE RNeg(d)

RECURSIVE LinSolve(_, _)
\* The solution of M x = b for a nonsingular M, by elimination and back
\* substitution: what a direct factorization followed by its triangular
\* solves returns.
LinSolve(M, b) ==
    IF Len(M) = 0 THEN <<>>
    ELSE LET p == Pivot(M)
             rest == LinSolve(ElimMat(M, p), ElimRhs(M, b, p))
             tail == [l \in 1..(Len(M) - 1) |-> RMul(M[p][l + 1], rest[l])]
             x1 == RDiv(RSub(b[p], VSum(tail)), M[p][1])
         IN  <<x1>> \o rest

\* The inverse of a nonsingular M, column by column: what a factorization done
\* once makes available to every later solve.  <<>> when M is singular.
Inverse(M) ==
    IF Det(M) = Zero THEN <<>>
    ELSE LET n == Len(M)
             col == [c \in 1..n |-> LinSolve(M, [k \in 1..n |-> IF k = c THEN One ELSE Zero])]
         IN  Transpose(col)

Leading(M, m) == [k \in 1..m |-> [l \in 1..m |-> M[k][l]]]
IsSymmetric(M) == \A k, l \in 1..Len(M) : M[k][l] = M[l][k]
\* Sylvester's criterion.
IsSPD(M) == IsSymmetric(M) /\ \A m \in 1..Len(M) : RLt(Zero, Det(Leading(M, m)))

\* ------------------------------------------------- processes, decomposition

\* Number of MPI processes (mpi.COMM_WORLD.size): one subdomain per process.
NProc == 2
Ranks == 0..(NProc - 1)
\* Global degrees of freedom.
NDof == NProc + 1
Dofs == 1..NDof

\* The local-to-global maps (r.indices of A.getLGMap()) the model is run on:
\* a chain, rank r holding dofs r+1 and r+2, and a star, every rank holding
\* dof 1 and a dof of its own.
Decomps ==
    { [r \in Ranks |-> <<r + 1, r + 2>>],
      [r \in Ranks |-> <<1, r + 2>>] }

NLoc(lg, r) == Len(lg[r])
\* The local indices of rank r that sit on global dof g.
LocalOf(lg, r, g) == {k \in 1..NLoc(lg, r) : lg[r][k] = g}
Sharing(lg, g) == {r \in Ranks : LocalOf(lg, r, g) # {}}

RECURSIVE SumSet(_, _)
\* The sum of f[e] over the finite set S.
SumSet(f, S) ==
    IF S = {} THEN Zero
    ELSE LET e == CHOOSE e \in S : TRUE
         IN  RAdd(f[e], SumSet(f, S \ {e}))

\* scatter_l2g(vlocal, vglobal, ADD_VALUES): every rank adds its local entries
\* to the global entries they sit on.  locs is one local vector per rank.
ScatterAdd(lg, locs, g) ==
    [i \in Dofs |->
        RAdd(g[i],
             SumSet([r \in Ranks |->
                        SumSet([k \in 1..NLoc(lg, r) |-> locs[r][k]], LocalOf(lg, r, i))],
                    Ranks))]

\* Variant of ScatterReverse: the index set of the next rank.
ScatterReverseNextRank(lg, g, r) ==
    [k \in 1..Len(lg[r]) |-> g[lg[(r + 1) % NProc][k]]]

\* scatter_l2g(vglobal, vlocal, INSERT_VALUES, SCATTER_REVERSE) on rank r:
\* every local entry is overwritten by the global entry it sits on.
ScatterReverse(lg, g, r) == [k \in 1..NLoc(lg, r) |-> g[lg[r][k]]]

\* The global vector holding the local vector v of rank r alone (R_r^T v).
Spread(lg, r, v) ==
    ScatterAdd(lg, [q \in Ranks |-> IF q = r THEN v ELSE VConst(NLoc(lg, q), Zero)],
               VConst(NDof, Zero))

\* A_IS.convert('mpiaij'): the assembled matrix, the sum over the ranks of the
\* local (Neumann) matrices at the global places their dofs sit on.
Assemble(lg, locmats) ==
    [i \in Dofs |-> [j \in Dofs |->
        SumSet([r \in Ranks |->
                  SumSet([k \in 1..NLoc(lg, r) |->
                            SumSet([l \in 1..NLoc(lg, r) |-> locmats[r][k][l]],
                                   LocalOf(lg, r, j))],
                         LocalOf(lg, r, i))],
               Ranks)]]

\* A.createSubMatrices(is_A)[0] on rank r.
SubMatrix(lg, G, r) ==
    [k \in 1..NLoc(lg, r) |-> [l \in 1..NLoc(lg, r) |-> G[lg[r][k]][lg[r][l]]]]

Max(S) == CHOOSE m \in S : \A n \in S : RLe(n, m)
VecMax(v) == Max({v[k] : k \in 1..Len(v)})

\* ------------------------------ projection.py (not part of the source tree)

\* Candidate kernel directions of a local matrix: entries in {-1, 0, 1}, not
\* all zero, the first nonzero one positive.
KernelCands(n) ==
    {v \in [1..n -> {R(-1), Zero, One}] :
        \E k \in 1..n : v[k] = One /\ \A j \in 1..(k - 1) : v[j] = Zero}

\* minimal_V0(ksp_Atildes).V0s: the kernel direction of the local solver's
\* matrix when it has one, a single constant vector otherwise.
minimal_V0(Atildes) ==
    LET n == Len(Atildes)
        K == {v \in KernelCands(n) : MatVec(Atildes, v) = VConst(n, Zero)}
    IN  IF K = {} THEN <<VConst(n, One)>> ELSE <<CHOOSE v \in K : TRUE>>

\* GenEO_V0(...).V0s: the minimal basis followed by the eigenvectors the local
\* generalized eigenproblems retained (modes: what the eigensolver returned
\* and the thresholds kept, possibly nothing).
GenEO_V0(minV0s, modes) == minV0s \o modes

RECURSIVE CoarseColsUpTo(_, _, _)
\* The coarse basis as global vectors: rank by rank, every local basis vector
\* moved to the global space by the exchange.
CoarseColsUpTo(lg, V0s, n) ==
    IF n = 0 THEN <<>>
    ELSE CoarseColsUpTo(lg, V0s, n - 1)
            \o [a \in 1..Len(V0s[n - 1]) |-> Spread(lg, n - 1, V0s[n - 1][a])]
CoarseCols(lg, V0s) == CoarseColsUpTo(lg, V0s, NProc)

\* The Galerkin coarse operator V0^T A V0.
CoarseMat(cols, G) ==
    [a \in 1..Len(cols) |-> [b \in 1..Len(cols) |-> Dot(cols[a], MatVec(G, cols[b]))]]

RECURSIVE Combine(_, _, _)
\* alpha[1] cols[1] + ... + alpha[n] cols[n].
Combine(alpha, cols, n) ==
    IF n = 0 THEN VConst(NDof, Zero)
    ELSE Axpy(Combine(alpha, cols, n - 1), alpha[n], cols[n])

\* coarse_operators(V0s, A, ...): the basis, the operator and the coarse
\* operator factorized once (its inverse; <<>> when it is singular).
coarse_operators(lg, V0s, G) ==
    LET cols == CoarseCols(lg, V0s)
    IN  [cols |-> cols, A |-> G, inv |-> Inverse(CoarseMat(cols, G))]

\* V0 (coarse^-1) V0^T b.
coarse_init(proj, b) ==
    LET beta == [a \in 1..Len(proj.cols) |-> Dot(proj.cols[a], b)]
        alpha == MatVec(proj.inv, beta)
    IN  Combine(alpha, proj.cols, Len(proj.cols))

\* y - A V0 (coarse^-1) V0^T y.
project(proj, yy) == VSub(yy, MatVec(proj.A, coarse_init(proj, yy)))

\* x - V0 (coarse^-1) V0^T A x.
project_transpose(proj, xx) == VSub(xx, coarse_init(proj, MatVec(proj.A, xx)))

\* ------------------------------------------------------------------ state

VARIABLES
    opts,      \* the PETSc options read by the constructor, and the class built
    lgmap,     \* the local-to-global map of every rank
    ANeus,     \* the local (Neumann) matrix of A_IS on every rank
    modes,     \* per rank, the eigenvectors the GenEO eigenproblems retained
    eigs,      \* per rank, what the eigensolver on Bs returned (PCNew)
    self,      \* the preconditioner object after construction
    works_1,   \* self.works_1, per rank
    works_2,   \* self.works_2, per rank
    x,         \* the vector the preconditioner is applied to
    xd,        \* mult's working copy of x
    y,         \* mult's output vector
    ys,        \* MP_mult's list of output vectors
    call,      \* the method running: "new", "idle", "mult", "MP_mult"
    pc,        \* per rank, the place reached in the running method
    loopi,     \* per rank, MP_mult's loop index i
    last,      \* the method that returned last
    trace,     \* the calls made by the running (or last) method, in order
    rhs,       \* per method and rank, the right-hand side of its last local solve
    chk,       \* the vectors of the last operator check
    out        \* what was printed

vars == <<opts, lgmap, ANeus, modes, eigs, self, works_1, works_2, x, xd, y, ys,
          call, pc, loopi, last, trace, rhs, chk, out>>

inputs == <<opts, lgmap, ANeus, modes, eigs, x>>

\* Content of a vector before anything was written to it.
Stale == R(7)
None == <<>>

\* ------------------------------------------------------- PCBNN.__init__

\* Variant of Multiplicity: the ones of line 87 as they are (no exchange).
MultiplicityOnes(lg, r) == VConst(NLoc(lg, r), One)

\* vlocal after lines 87-90: ones scattered with ADD_VALUES, then read back.
Multiplicity(lg, r) ==
    LET vglobal == ScatterAdd(lg, [q \in Ranks |-> VConst(NLoc(lg, q), One)],
                              VConst(NDof, Zero))
    IN  ScatterReverse(lg, vglobal, r)

\* mult_max: the maximum of vglobal.
MultMax(lg) ==
    VecMax(ScatterAdd(lg, [q \in Ranks |-> VConst(NLoc(lg, q), One)],
                      VConst(NDof, Zero)))

\* Variants of ScalingFactor: the reciprocal of the multiplicity; the
\* multiplicity whatever the policy.
ScalingFactorReciprocal(kscaling, vlocal, As, Ms) ==
    IF kscaling = FALSE THEN VDiv(VConst(Len(vlocal), One), vlocal)
    ELSE VDiv(Diagonal(As), Diagonal(Ms))
ScalingFactorMultiplicity(kscaling, vlocal, As, Ms) == vlocal

\* The factor handed to Ms.diagonalScale on both sides: vlocal (the
\* multiplicity) without k-scaling, v1/v2 with it.
ScalingFactor(kscaling, vlocal, As, Ms) ==
    IF kscaling = FALSE THEN vlocal
    ELSE VDiv(Diagonal(As), Diagonal(Ms))

\* Ms after lines 93-99.
ScaledMs(kscaling, vlocal, As, Ms) ==
    LET f == ScalingFactor(kscaling, vlocal, As, Ms)
    IN  DiagonalScale(Ms, f, f)

\* pc.setType('cholesky') on a local matrix: its factorization, which exists
\* when the matrix is symmetric positive definite.
Cholesky(M) == IF IsSPD(M) THEN Inverse(M) ELSE <<>>

\* The matrices PCBNN.__init__ hands to pc.setType('cholesky') on a rank, in
\* the order of the calls: Atildes for ksp_Atildes (line 113) and for
\* ksp_Atildes_forSLEPc (line 122).
PCBNN_cholesky(Atildes) == <<Atildes, Atildes>>

PCBNN_construct(o, lg, N, md) ==
    LET Ms0 == [r \in Ranks |-> IntMat(N[r])]
        A_mpiaij == Assemble(lg, Ms0)
        As == [r \in Ranks |-> SubMatrix(lg, A_mpiaij, r)]
        vlocal == [r \in Ranks |-> Multiplicity(lg, r)]
        Ms == [r \in Ranks |-> ScaledMs(o.kscaling, vlocal[r], As[r], Ms0[r])]
        Atildes == IF o.switchtoASM THEN As ELSE Ms
        minV0 == [r \in Ranks |-> minimal_V0(Atildes[r])]
        V0s == IF o.GenEO = TRUE
               THEN [r \in Ranks |-> GenEO_V0(minV0[r], md[r])]
               ELSE minV0
    IN  [cls |-> "PCBNN", A |-> A_mpiaij, Ms |-> Ms, As |-> As,
         Atildes |-> Atildes, vlocal |-> vlocal, mult_max |-> MultMax(lg),
         ksp_Atildes |-> [r \in Ranks |-> Cholesky(Atildes[r])],
         V0s |-> V0s, proj |-> coarse_operators(lg, V0s, A_mpiaij),
         handed |-> [r \in Ranks |-> PCBNN_cholesky(Atildes[r])]]


\* ------------------------------------------- the operators of PCNew

\* Anegs_ctx.mult: gamma[i] = x . DVnegs[i], then y = sum_i gamma[i] Vnegs[i].
RECURSIVE AxpyAll(_, _, _, _)
AxpyAll(yy, gamma, V, n) ==
    IF n = 0 THEN yy ELSE Axpy(AxpyAll(yy, gamma, V, n - 1), gamma[n], V[n])

\* Variant of Anegs_mult: the inner products taken against Vnegs.
Anegs_multUnweighted(Vnegs, DVnegs, xx) ==
    LET gamma == [i \in 1..Len(Vnegs) |-> Dot(xx, Vnegs[i])]
    IN  AxpyAll(VConst(Len(xx), Zero), gamma, Vnegs, Len(Vnegs))

Anegs_mult(Vnegs, DVnegs, xx) ==
    LET gamma == [i \in 1..Len(DVnegs) |-> Dot(xx, DVnegs[i])]
    IN  AxpyAll(VConst(Len(xx), Zero), gamma, Vnegs, Len(Vnegs))

\* Variant of Aposs_mult: Bs alone.
Aposs_multBs(Bs, Vnegs, DVnegs, xx) == MatVec(Bs, xx)

\* Aposs_ctx.mult: y = Bs x + Anegs x.
Aposs_mult(Bs, Vnegs, DVnegs, xx) ==
    LET xtemp == Anegs_mult(Vnegs, DVnegs, xx)
    IN  VAdd(MatVec(Bs, xx), xtemp)

\* projVnegs_ctx.mult: y = sum_i (x . v_i) v_i.
projVnegs_mult(Vnegs, xx) ==
    AxpyAll(VConst(Len(xx), Zero), [i \in 1..Len(Vnegs) |-> Dot(xx, Vnegs[i])],
            Vnegs, Len(Vnegs))

\* projVposs_ctx.mult: projVnegs applied to -x, then y += x.
projVposs_mult(Vnegs, xx) == Axpy(projVnegs_mult(Vnegs, VNeg(xx)), One, xx)

\* invAposs_ctx.apply: project, solve with the factorization of Bs, project.
invAposs_apply(Bs_ksp, Vnegs, xx) ==
    LET xtemp1 == projVposs_mult(Vnegs, xx)
        xtemp2 == MatVec(Bs_ksp, xtemp1)
    IN  projVposs_mult(Vnegs, xtemp2)

\* scaledmats_ctx(Aposs, musl, musr).mult: y = musl * Aposs(x * musr).
scaledAposs_mult(Bs, Vnegs, DVnegs, musl, musr, xx) ==
    VMul(Aposs_mult(Bs, Vnegs, DVnegs, VMul(xx, musr)), musl)

\* Variant of scaledinvAposs_apply: invAposs without the two scalings.
invAposs_unscaled(Bs_ksp, Vnegs, musl, musr, xx) == invAposs_apply(Bs_ksp, Vnegs, xx)

\* scaledmats_ctx(invAposs, musl, musr).apply: y = musl * invAposs(x * musr).
scaledinvAposs_apply(Bs_ksp, Vnegs, musl, musr, xx) ==
    VMul(invAposs_apply(Bs_ksp, Vnegs, VMul(xx, musr)), musl)

\* Variant of Aneg_works: self.works as the first exchange leaves it.
Aneg_worksRestriction(lg, Vnegs, DVnegs, r, xx) == ScatterReverse(lg, xx, r)

\* Aneg_ctx.mult, the local part between its two exchanges: the content of
\* self.works of rank r when the second exchange starts.
Aneg_works(lg, Vnegs, DVnegs, r, xx) ==
    Anegs_mult(Vnegs[r], DVnegs[r], ScatterReverse(lg, xx, r))

\* Aneg_ctx.mult: y.
Aneg_mult(lg, Vnegs, DVnegs, xx) ==
    ScatterAdd(lg, [r \in Ranks |-> Aneg_works(lg, Vnegs, DVnegs, r, xx)],
               VConst(NDof, Zero))

\* Apos_ctx.mult: y = A x + Aneg x.
Apos_mult(lg, A_mpiaij, Vnegs, DVnegs, xx) ==
    LET xtemp == Aneg_mult(lg, Vnegs, DVnegs, xx)
    IN  VAdd(MatVec(A_mpiaij, xx), xtemp)

Unit(n, j) == [k \in 1..n |-> IF k = j THEN One ELSE Zero]

\* -------------------------------------------------------- PCNew.__init__

\* The places of its local matrix a rank stores: the diagonal and the nonzero
\* entries (ANeus.getRow(i) returns their columns).
Stored(N, k, l) == k = l \/ N[k][l] # 0

\* Mu after lines 240-245: ones at the stored places of every rank, assembled.
MuMat(lg, N) ==
    Assemble(lg, [r \in Ranks |->
        [k \in 1..NLoc(lg, r) |-> [l \in 1..NLoc(lg, r) |->
            IF Stored(N[r], k, l) THEN One ELSE Zero]]])

\* B after lines 248-254: A divided entry by entry by Mu, at the places A holds.
BMat(A_mpiaij, Mu) ==
    [i \in Dofs |-> [j \in Dofs |->
        IF Mu[i][j] = Zero THEN Zero ELSE RDiv(A_mpiaij[i][j], Mu[i][j])]]

BsOf(lg, N, r) ==
    LET A_mpiaij == Assemble(lg, [q \in Ranks |-> IntMat(N[q])])
    IN  SubMatrix(lg, BMat(A_mpiaij, MuMat(lg, N)), r)

\* The eigensolver (SLEPc, out of the source tree).  Unit vectors it can
\* return exactly: entries in {0, 1, 3/5, -3/5, 4/5, -4/5}, norm one, the first
\* nonzero entry positive.
UnitVecs(n) ==
    {v \in [1..n -> {Zero, One, <<3, 5>>, <<-3, 5>>, <<4, 5>>, <<-4, 5>>}] :
        /\ Dot(v, v) = One
        /\ \E k \in 1..n : RLt(Zero, v[k]) /\ \A j \in 1..(k - 1) : v[j] = Zero}

\* The eigenpairs <<lambda, v>> of M among them.
EigPairs(M) ==
    {<<Dot(v, MatVec(M, v)), v>> : v \in
        {u \in UnitVecs(Len(M)) : MatVec(M, u) = VScale(Dot(u, MatVec(M, u)), u)}}

\* The full orthonormal eigenbases of M, smallest eigenvalue first
\* (EPS.Which.SMALLEST_REAL).
EigenBases(M) ==
    {b \in [1..Len(M) -> EigPairs(M)] :
        /\ \A i, j \in 1..Len(M) : i < j => RLe(b[i][1], b[j][1])
        /\ \A i, j \in 1..Len(M) : i # j => Dot(b[i][2], b[j][2]) = Zero}

\* What eps.solve() may leave: the first c pairs of a basis, c = getConverged()
\* at most short of the size of M.
EigOutcomes(M, short) ==
    {SubSeq(b, 1, c) : b \in EigenBases(M), c \in {d \in 0..Len(M) : Len(M) - d \in short}}

RECURSIVE EigChoices(_, _, _, _)
\* One outcome for each of the first n ranks.
EigChoices(lg, N, short, n) ==
    IF n = 0 THEN {<<>>}
    ELSE {Append(c, e) : c \in EigChoices(lg, N, short, n - 1),
                         e \in EigOutcomes(BsOf(lg, N, n - 1), short)}

RECURSIVE NegIdx(_, _)
\* Lines 361-372: the indices i < getConverged() with a negative eigenvalue,
\* in the order the loop meets them.
NegIdx(pairs, n) ==
    IF n = 0 THEN <<>>
    ELSE NegIdx(pairs, n - 1) \o (IF RLt(pairs[n][1], Zero) THEN <<n>> ELSE <<>>)

\* Variant of DnegOf: the eigenvalue with its sign.
DnegOfSigned(lambda) == lambda

\* Dnegs.append(-1.*tempscalar)
DnegOf(lambda) == RMul(R(-1), lambda)

\* Variant of UnderConverged: only when nothing converged.
UnderConvergedNothing(conv, nev) == conv = 0

\* Line 358: the diagnostic is printed when fewer pairs converged than asked.
UnderConverged(conv, nev) == conv < nev

PCNew_eig(pairs, invmus) ==
    LET idx == NegIdx(pairs, Len(pairs))
        Dnegs == [i \in 1..Len(idx) |-> DnegOf(pairs[idx[i]][1])]
        Vnegs == [i \in 1..Len(idx) |-> pairs[idx[i]][2]]
    IN  [Dnegs |-> Dnegs, Vnegs |-> Vnegs,
         DVnegs |-> [i \in 1..Len(idx) |-> VScale(Dnegs[i], Vnegs[i])],
         invmusVnegs |-> [i \in 1..Len(idx) |-> VMul(invmus, Vnegs[i])],
         read |-> 1..Len(pairs)]

\* Variant of PCNew_minV0s: the minimal coarse space in both branches.
PCNew_minV0sMinimal(switchtoASM, As, invmusVnegs) == minimal_V0(As)

\* minV0s of lines 473 and 493.
PCNew_minV0s(switchtoASM, As, invmusVnegs) ==
    IF switchtoASM THEN minimal_V0(As) ELSE invmusVnegs

\* Variant of PCNew_cholesky: Bs is not factorized.
PCNew_choleskyAtildes(switchtoASM, Bs, As) ==
    IF switchtoASM THEN <<As, As>> ELSE <<>>

\* The matrices PCNew.__init__ hands to pc.setType('cholesky') on a rank, in
\* the order of the calls: Bs for Bs_ksp (line 280, set up at line 283), and
\* with switchtoASM Atildes = As for ksp_Atildes (line 470) and for
\* ksp_Atildes_forSLEPc (line 480).  The default branch gives ksp_Atildes a
\* python PC (line 490): Aposs is never factorized.
PCNew_cholesky(switchtoASM, Bs, As) ==
    <<Bs>> \o (IF switchtoASM THEN <<As, As>> ELSE <<>>)

PCNew_construct(o, lg, N, md, eg) ==
    LET A_mpiaij == Assemble(lg, [r \in Ranks |-> IntMat(N[r])])
        Mu == MuMat(lg, N)
        B == BMat(A_mpiaij, Mu)
        As == [r \in Ranks |-> SubMatrix(lg, A_mpiaij, r)]
        Bs == [r \in Ranks |-> SubMatrix(lg, B, r)]
        work == Diagonal(Mu)
        mus == [r \in Ranks |-> ScatterReverse(lg, work, r)]
        invmus == [r \in Ranks |-> VDiv(VConst(NLoc(lg, r), One), mus[r])]
        e == [r \in Ranks |-> PCNew_eig(eg[r], invmus[r])]
        Vnegs == [r \in Ranks |-> e[r].Vnegs]
        DVnegs == [r \in Ranks |-> e[r].DVnegs]
        MsCol == [r \in Ranks |-> [l \in 1..NLoc(lg, r) |->
                    scaledAposs_mult(Bs[r], Vnegs[r], DVnegs[r], mus[r], mus[r],
                                     Unit(NLoc(lg, r), l))]]
        Ms == [r \in Ranks |-> Transpose(MsCol[r])]
        minV0s == [r \in Ranks |-> PCNew_minV0s(o.switchtoASM, As[r], e[r].invmusVnegs)]
        V0s == IF o.GenEO = TRUE
               THEN [r \in Ranks |-> GenEO_V0(minV0s[r], md[r])]
               ELSE minV0s
        Apos == Transpose([j \in Dofs |->
                   Apos_mult(lg, A_mpiaij, Vnegs, DVnegs, Unit(NDof, j))])
    IN  [cls |-> "PCNew", A |-> A_mpiaij, Apos |-> Apos, Ms |-> Ms, As |-> As,
         Atildes |-> IF o.switchtoASM THEN As ELSE Ms,
         ksp_Atildes |-> [r \in Ranks |-> IF o.switchtoASM THEN Cholesky(As[r]) ELSE <<>>],
         mult_max |-> VecMax(work), V0s |-> V0s,
         proj |-> coarse_operators(lg, V0s, Apos),
         Bs |-> Bs, Bs_ksp |-> [r \in Ranks |-> Inverse(Bs[r])],
         mus |-> mus, invmus |-> invmus,
         Dnegs |-> [r \in Ranks |-> e[r].Dnegs], Vnegs |-> Vnegs, DVnegs |-> DVnegs,
         minV0s |-> minV0s, conv |-> [r \in Ranks |-> Len(eg[r])],
         read |-> [r \in Ranks |-> e[r].read],
         handed |-> [r \in Ranks |-> PCNew_cholesky(o.switchtoASM, Bs[r], As[r])]]

\* ------------------------------------------------------------ the inputs

\* Local matrices of a symmetric positive semi-definite problem (PCBNN).
LocalMatsBNN ==
    { << <<2, -1>>, <<-1, 2>> >>,
      << <<1, -1>>, <<-1, 1>> >>,
      << <<1, 0>>, <<0, 3>> >> }

\* Local matrices of a symmetric, possibly indefinite, problem (PCNew).
LocalMatsNew ==
    { << <<1, 0>>, <<0, 2>> >>,
      << <<-2, 0>>, <<0, -1>> >>,
      << <<4, 0>>, <<0, -3>> >>,
      << <<11, -12>>, <<-12, 4>> >> }

\* What the GenEO eigenproblems of a rank may retain.
ModeChoices(n) == {<<>>, <<Unit(n, 1)>>}

\* Largest number of eigenpairs asked for (PCNew_Bs_nev).
MaxNev == 2

\* The vectors the preconditioner is applied to.
XInputs == {Unit(NDof, 1), [i \in Dofs |-> R(i)]}

\* The local test vectors of the operator checks: entries in {-1, 0, 1}, one
\* vector of every direction.
LocalTests(n) ==
    {v \in [1..n -> {R(-1), Zero, One}] :
        \E k \in 1..n : v[k] = One /\ \A j \in 1..(k - 1) : v[j] = Zero}

StaleLocal(lg) == [r \in Ranks |-> VConst(NLoc(lg, r), Stale)]
StaleGlobal == VConst(NDof, Stale)

InitCommon ==
    /\ modes \in [Ranks -> UNION {ModeChoices(NLoc(lgmap, r)) : r \in Ranks}]
    /\ \A r \in Ranks : (opts.GenEO = FALSE \/ r > 0) => modes[r] = <<>>
    /\ self = [cls |-> "none"]
    /\ works_1 = StaleLocal(lgmap)
    /\ works_2 = StaleLocal(lgmap)
    /\ x = StaleGlobal
    /\ xd = StaleGlobal
    /\ y = StaleGlobal
    /\ ys = [i \in Ranks |-> StaleGlobal]
    /\ call = "new"
    /\ pc = [r \in Ranks |-> "idle"]
    /\ loopi = [r \in Ranks |-> 0]
    /\ last = "none"
    /\ trace = <<>>
    /\ rhs = [m \in {"mult", "MP_mult"} |-> [r \in Ranks |-> None]]
    /\ chk = [op |-> "none"]
    /\ out = {}

\* PCBNN on the local matrices of the set mats, addCS and projCS in flags.
InitBNN(mats, flags) ==
    /\ lgmap \in Decomps
    /\ ANeus \in [Ranks -> mats]
    /\ eigs = [r \in Ranks |-> <<>>]
    /\ opts \in [cls : {"PCBNN"}, switchtoASM : BOOLEAN, kscaling : BOOLEAN,
                 GenEO : BOOLEAN, addCS : flags, projCS : flags, nev : {0}]
    /\ InitCommon

\* PCNew on the local matrices of the set mats, asked for one of nevs
\* eigenpairs; eigs is what the eigensolver returns on every rank, the number
\* of pairs that did not converge in short.
InitNew(mats, nevs, short, flags) ==
    /\ lgmap \in Decomps
    /\ ANeus \in [Ranks -> mats]
    /\ \E c \in EigChoices(lgmap, ANeus, short, NProc) : eigs = [r \in Ranks |-> c[r + 1]]
    /\ opts \in [cls : {"PCNew"}, switchtoASM : BOOLEAN, kscaling : {TRUE},
                 GenEO : BOOLEAN, addCS : flags, projCS : flags, nev : nevs]
    /\ InitCommon

\* ---------------------------------------------------------- construction

\* Variant of PCNew_prints: the print of line 461 left out.
PCNew_printsNoWarning(o, r, conv, nneg) ==
    (IF conv < o.nev
        THEN {[msg |-> "eigenvalues converged (less that the requested)",
               rank |-> r, converged |-> conv, nev |-> o.nev]}
        ELSE {})
    \cup {[msg |-> "ncv with negative eigs", rank |-> r, converged |-> conv,
           nneg |-> nneg, nev |-> o.nev]}
    \cup (IF o.switchtoASM /\ r = 0
             THEN {[msg |-> "switch to Additive Schwarz", rank |-> r]}
             ELSE {})

\* What PCNew.__init__ prints on rank r (lines 358-359, 373, 460-464).
PCNew_prints(o, r, conv, nneg) ==
    (IF UnderConverged(conv, o.nev)
        THEN {[msg |-> "eigenvalues converged (less that the requested)",
               rank |-> r, converged |-> conv, nev |-> o.nev]}
        ELSE {})
    \cup {[msg |-> "ncv with negative eigs", rank |-> r, converged |-> conv,
           nneg |-> nneg, nev |-> o.nev]}
    \cup (IF o.switchtoASM
             THEN {[msg |-> "GenEO coarse space for this Atildes is not implemented yet",
                    rank |-> r]}
             ELSE {})
    \cup (IF o.switchtoASM /\ r = 0
             THEN {[msg |-> "switch to Additive Schwarz", rank |-> r]}
             ELSE {})

\* PCBNN.__init__ (lines 64-143).
PCBNN_init ==
    /\ call = "new"
    /\ opts.cls = "PCBNN"
    /\ self' = PCBNN_construct(opts, lgmap, ANeus, modes)
    /\ works_1' = self'.vlocal
    /\ works_2' = self'.vlocal
    /\ out' = IF opts.switchtoASM
              THEN {[msg |-> "switch to Additive Schwarz", rank |-> 0]}
              ELSE {}
    /\ call' = "idle"
    /\ UNCHANGED <<inputs, xd, y, ys, pc, loopi, last, trace, rhs, chk>>

\* PCNew.__init__ (lines 226-525).
PCNew_init ==
    /\ call = "new"
    /\ opts.cls = "PCNew"
    /\ self' = PCNew_construct(opts, lgmap, ANeus, modes, eigs)
    /\ out' = UNION {PCNew_prints(opts, r, self'.conv[r], Len(self'.Vnegs[r])) : r \in Ranks}
    /\ call' = "idle"
    /\ UNCHANGED <<inputs, works_1, works_2, xd, y, ys, pc, loopi, last, trace, rhs, chk>>

\* ------------------------------------------------- what a call can rely on

\* The local solves and the coarse solve are defined: every matrix handed
\* to a factorization is nonsingular (positive definite for ksp_Atildes of
\* PCBNN and of the Additive Schwarz branch).
WellPosed(obj) ==
    /\ obj.proj.inv # <<>> \/ obj.proj.cols = <<>>
    /\ obj.cls = "PCBNN" => \A r \in Ranks : obj.ksp_Atildes[r] # <<>>
    /\ obj.cls = "PCNew" =>
          /\ \A r \in Ranks : obj.Bs_ksp[r] # <<>>
          /\ opts.switchtoASM => \A r \in Ranks : obj.ksp_Atildes[r] # <<>>

\* self.ksp_Atildes.solve(b, .) on rank r: a Cholesky solve with Atildes in
\* PCBNN and in the Additive Schwarz branch of PCNew, one application of
\* scaledmats_ctx(invAposs, invmus, invmus) otherwise (lines 485-492).
ksp_Atildes_solve(obj, r, b) ==
    IF obj.cls = "PCBNN" \/ opts.switchtoASM
    THEN MatVec(obj.ksp_Atildes[r], b)
    ELSE scaledinvAposs_apply(obj.Bs_ksp[r], obj.Vnegs[r], obj.invmus[r], obj.invmus[r], b)

\* self.works of Aneg_ctx is the vector PCNew keeps as self.works_1 (lines
\* 395, 513): a product with Apos leaves Aneg's local result in it.
WorksAfterAop(obj, w, xx) ==
    IF obj.cls = "PCNew"
    THEN [r \in Ranks |-> Aneg_works(lgmap, obj.Vnegs, obj.DVnegs, r, xx)]
    ELSE w

AllAt(l) == \A r \in Ranks : pc[r] = l
Log(op, who, arg) == <<op, who, arg>>

\* ------------------------------------- PCBNN.mult and PCNew.mult (same body)

\* The caller hands x to mult.
mult_call ==
    /\ call = "idle"
    /\ WellPosed(self)
    /\ IF last = "none" THEN \E v \in XInputs : x' = v ELSE x' = x
    /\ call' = "mult"
    /\ pc' = [r \in Ranks |-> "copy"]
    /\ trace' = <<>>
    /\ UNCHANGED <<opts, lgmap, ANeus, modes, eigs, self, works_1, works_2, xd, y, ys,
                   loopi, last, rhs, chk, out>>

\* Lines 163-165: xd = x.copy(), projected when projCS is set.
mult_copy ==
    /\ call = "mult"
    /\ AllAt("copy")
    /\ IF opts.projCS = TRUE
       THEN /\ xd' = project_transpose(self.proj, x)
            /\ works_1' = WorksAfterAop(self, works_1, x)
            /\ trace' = Append(trace, Log("project_transpose", "all", x))
       ELSE /\ xd' = x
            /\ UNCHANGED <<works_1, trace>>
    /\ pc' = [r \in Ranks |-> "scatter"]
    /\ UNCHANGED <<inputs, self, works_2, y, ys, call, loopi, last, rhs, chk, out>>

\* Line 167: xd to the local work vector, reverse and overwriting.
mult_scatter ==
    /\ call = "mult"
    /\ AllAt("scatter")
    /\ works_1' = [r \in Ranks |-> ScatterReverse(lgmap, xd, r)]
    /\ trace' = Append(trace, Log("scatter_reverse", "all", xd))
    /\ pc' = [r \in Ranks |-> "solve"]
    /\ UNCHANGED <<inputs, self, works_2, xd, y, ys, call, loopi, last, rhs, chk, out>>

\* Line 168: the local solve, every rank its own system.
mult_solve ==
    /\ call = "mult"
    /\ AllAt("solve")
    /\ works_2' = [r \in Ranks |-> ksp_Atildes_solve(self, r, works_1[r])]
    /\ rhs' = [rhs EXCEPT !["mult"] = works_1]
    /\ trace' = Append(trace, Log("solve", "each", works_1))
    /\ pc' = [r \in Ranks |-> "gather"]
    /\ UNCHANGED <<inputs, self, works_1, xd, y, ys, call, loopi, last, chk, out>>

\* Lines 170-171: y zeroed, then the local solutions added into it.
mult_gather ==
    /\ call = "mult"
    /\ AllAt("gather")
    /\ y' = ScatterAdd(lgmap, works_2, VConst(NDof, Zero))
    /\ trace' = trace \o <<Log("set_zero", "all", y), Log("scatter_add", "all", works_2)>>
    /\ pc' = [r \in Ranks |-> "project"]
    /\ UNCHANGED <<inputs, self, works_1, works_2, xd, ys, call, loopi, last, rhs, chk, out>>

\* Lines 172-173: project(y) when projCS is set.
mult_project ==
    /\ call = "mult"
    /\ AllAt("project")
    /\ IF opts.projCS = TRUE
       THEN /\ y' = project(self.proj, y)
            /\ works_1' = WorksAfterAop(self, works_1, coarse_init(self.proj, y))
            /\ trace' = Append(trace, Log("project", "all", y))
       ELSE UNCHANGED <<y, works_1, trace>>
    /\ pc' = [r \in Ranks |-> "coarse"]
    /\ UNCHANGED <<inputs, self, works_2, xd, ys, call, loopi, last, rhs, chk, out>>

\* Variant of CoarseArg: line 176 left out, coarse_init gets the working copy.
CoarseArgWorkingCopy(xx, xdd) == xdd

\* The vector handed to coarse_init at line 177: a fresh copy of x.
CoarseArg(xx, xdd) == xx

\* Lines 175-178: y += coarse_init(x.copy()) when addCS is set; mult returns.
mult_coarse ==
    /\ call = "mult"
    /\ AllAt("coarse")
    /\ IF opts.addCS = TRUE
       THEN /\ xd' = CoarseArg(x, xd)
            /\ y' = VAdd(y, coarse_init(self.proj, xd'))
            /\ trace' = Append(trace, Log("coarse_init", "all", xd'))
       ELSE UNCHANGED <<xd, y, trace>>
    /\ pc' = [r \in Ranks |-> "idle"]
    /\ call' = "idle"
    /\ last' = "mult"
    /\ UNCHANGED <<inputs, self, works_1, works_2, ys, loopi, rhs, chk, out>>

\* ------------------------------------------------------------ MP_mult

MP_mult_call ==
    /\ call = "idle"
    /\ WellPosed(self)
    /\ IF last = "none" THEN \E v \in XInputs : x' = v ELSE x' = x
    /\ call' = "MP_mult"
    /\ pc' = [r \in Ranks |-> "mp_scatter"]
    /\ loopi' = [r \in Ranks |-> 0]
    /\ trace' = <<>>
    /\ UNCHANGED <<opts, lgmap, ANeus, modes, eigs, self, works_1, works_2, xd, y, ys,
                   last, rhs, chk, out>>

\* PCNew.MP_mult (line 688): prints 'not implemented' and returns.
PCNew_MP_mult ==
    /\ call = "MP_mult"
    /\ self.cls = "PCNew"
    /\ AllAt("mp_scatter")
    /\ out' = out \cup {[msg |-> "not implemented", rank |-> r] : r \in Ranks}
    /\ pc' = [r \in Ranks |-> "idle"]
    /\ call' = "idle"
    /\ last' = "MP_mult"
    /\ UNCHANGED <<inputs, self, works_1, works_2, xd, y, ys, loopi, trace, rhs, chk>>

\* PCBNN.MP_mult, line 194: x to the local work vector.
MP_scatter ==
    /\ call = "MP_mult"
    /\ self.cls = "PCBNN"
    /\ AllAt("mp_scatter")
    /\ works_1' = [r \in Ranks |-> ScatterReverse(lgmap, x, r)]
    /\ trace' = Append(trace, Log("scatter_reverse", "all", x))
    /\ pc' = [r \in Ranks |-> "mp_solve"]
    /\ UNCHANGED <<inputs, self, works_2, xd, y, ys, call, loopi, last, rhs, chk, out>>

\* Line 195: the local solve, every rank its own system.
MP_solve ==
    /\ call = "MP_mult"
    /\ AllAt("mp_solve")
    /\ works_2' = [r \in Ranks |-> ksp_Atildes_solve(self, r, works_1[r])]
    /\ rhs' = [rhs EXCEPT !["MP_mult"] = works_1]
    /\ trace' = Append(trace, Log("solve", "each", works_1))
    /\ pc' = [r \in Ranks |-> "mp_set"]
    /\ UNCHANGED <<inputs, self, works_1, xd, y, ys, call, loopi, last, chk, out>>

\* Variant of MP_works: line 197 left out, every rank keeps its solution.
MP_worksAllRanks(r, i, w2) == w2

\* Lines 197-199 on rank r: works_1 zeroed, then, on the rank whose turn it
\* is, rebound to a copy of works_2.
MP_works(r, i, w2) == IF r = i THEN w2 ELSE VConst(Len(w2), Zero)

MP_set ==
    /\ call = "MP_mult"
    /\ AllAt("mp_set")
    /\ works_1' = [r \in Ranks |-> MP_works(r, loopi[r], works_2[r])]
    /\ pc' = [r \in Ranks |-> "mp_gather"]
    /\ UNCHANGED <<inputs, self, works_2, xd, y, ys, call, loopi, last, trace, rhs, chk, out>>

\* Lines 200-201: y[i] zeroed, then the local work vectors added into it.
MP_gather ==
    /\ call = "MP_mult"
    /\ AllAt("mp_gather")
    /\ LET i == loopi[0]
       IN  /\ ys' = [ys EXCEPT ![i] = ScatterAdd(lgmap, works_1, VConst(NDof, Zero))]
           /\ trace' = trace \o <<Log("set_zero", "all", i), Log("scatter_add", "all", works_1)>>
    /\ pc' = [r \in Ranks |-> "mp_project"]
    /\ UNCHANGED <<inputs, self, works_1, works_2, xd, y, call, loopi, last, rhs, chk, out>>

\* Line 202: project(y[i]); the loop goes on, or MP_mult returns.
MP_project ==
    /\ call = "MP_mult"
    /\ AllAt("mp_project")
    /\ LET i == loopi[0]
       IN  /\ ys' = [ys EXCEPT ![i] = project(self.proj, ys[i])]
           /\ trace' = Append(trace, Log("project", "all", ys[i]))
           /\ loopi' = [r \in Ranks |-> i + 1]
           /\ IF i + 1 < NProc
              THEN /\ pc' = [r \in Ranks |-> "mp_set"]
                   /\ UNCHANGED <<call, last>>
              ELSE /\ pc' = [r \in Ranks |-> "idle"]
                   /\ call' = "idle"
                   /\ last' = "MP_mult"
    /\ UNCHANGED <<inputs, self, works_1, works_2, xd, y, rhs, chk, out>>

\* ----------------------------------------- the operator checks of __init__

\* Lines 553-560 on rank r, works = v: the three quadratic forms
\* <Bs x, x>, <Aposs x, x>, <Anegs x, x> of the operators built at lines
\* 404-410.
check_signsplit(r, v) ==
    /\ call = "idle"
    /\ self.cls = "PCNew"
    /\ chk.op = "none"
    /\ chk' = [op |-> "signsplit", rank |-> r, x |-> v,
               Bs |-> Dot(MatVec(self.Bs[r], v), v),
               Aposs |-> Dot(Aposs_mult(self.Bs[r], self.Vnegs[r], self.DVnegs[r], v), v),
               Anegs |-> Dot(Anegs_mult(self.Vnegs[r], self.DVnegs[r], v), v)]
    /\ UNCHANGED <<inputs, self, works_1, works_2, xd, y, ys, call, pc, loopi, last,
                   trace, rhs, out>>

\* Lines 575-583 on rank r, works = v: Ms x, the solve of ksp_Ms on it, and
\* Ms applied to the solution (Ms and its solve as set at lines 437-448).
check_roundtrip(r, v) ==
    /\ call = "idle"
    /\ self.cls = "PCNew"
    /\ chk.op = "none"
    /\ self.Bs_ksp[r] # <<>>
    /\ LET T(u) == scaledAposs_mult(self.Bs[r], self.Vnegs[r], self.DVnegs[r],
                                    self.mus[r], self.mus[r], u)
           S(u) == scaledinvAposs_apply(self.Bs_ksp[r], self.Vnegs[r],
                                        self.invmus[r], self.invmus[r], u)
           works_3 == Stored1(T(v))
           works_4 == Stored1(S(works_3))
       IN  chk' = [op |-> "roundtrip", rank |-> r, x |-> v,
                   Tx |-> works_3, STx |-> works_4, TSTx |-> T(works_4)]
    /\ UNCHANGED <<inputs, self, works_1, works_2, xd, y, ys, call, pc, loopi, last,
                   trace, rhs, out>>

\* ------------------------------- one call of a matrix-free operator

\* A call of the mult (or apply) of a local operator context of rank r on
\* the local vector v, giving yy: no context of lines 756-825 holds a vector
\* of the preconditioner.  chk keeps the call, with works_1 as it was before.
LocalCall(name, r, v, yy) ==
    /\ call = "idle"
    /\ self.cls = "PCNew"
    /\ chk.op = "none"
    /\ chk' = [op |-> name, rank |-> r, x |-> v, y |-> yy, works_1 |-> works_1]
    /\ UNCHANGED <<inputs, self, works_1, works_2, xd, y, ys, call, pc, loopi, last,
                   trace, rhs, out>>

Anegs_ctx_mult(r, v) ==
    LocalCall("Anegs_ctx", r, v, Anegs_mult(self.Vnegs[r], self.DVnegs[r], v))
Aposs_ctx_mult(r, v) ==
    LocalCall("Aposs_ctx", r, v, Aposs_mult(self.Bs[r], self.Vnegs[r], self.DVnegs[r], v))
projVnegs_ctx_mult(r, v) ==
    LocalCall("projVnegs_ctx", r, v, projVnegs_mult(self.Vnegs[r], v))
projVposs_ctx_mult(r, v) ==
    LocalCall("projVposs_ctx", r, v, projVposs_mult(self.Vnegs[r], v))
invAposs_ctx_apply(r, v) ==
    /\ self.cls = "PCNew" /\ self.Bs_ksp[r] # <<>>
    /\ LocalCall("invAposs_ctx", r, v, invAposs_apply(self.Bs_ksp[r], self.Vnegs[r], v))
scaledmats_ctx_mult(r, v) ==
    LocalCall("scaledmats_ctx", r, v,
              scaledAposs_mult(self.Bs[r], self.Vnegs[r], self.DVnegs[r],
                               self.mus[r], self.mus[r], v))

\* A call of Aneg_ctx.mult (lines 720-730) or Apos_ctx.mult (lines 750-754,
\* which calls Aneg_ctx.mult) on the global vector v, giving yy.  self.works
\* of Aneg_ctx is the works handed over at line 395, kept by PCNew as
\* self.works_1 (line 513): the call leaves the local result of Aneg in it.
GlobalCall(name, v, yy) ==
    /\ call = "idle"
    /\ self.cls = "PCNew"
    /\ chk.op = "none"
    /\ x' = v
    /\ y' = yy
    /\ works_1' = [r \in Ranks |-> Aneg_works(lgmap, self.Vnegs, self.DVnegs, r, v)]
    /\ trace' = <<Log("scatter_reverse", "all", v), Log("scatter_add", "all", works_1')>>
    /\ chk' = [op |-> name, rank |-> "all", x |-> v, y |-> yy, works_1 |-> works_1]
    /\ UNCHANGED <<opts, lgmap, ANeus, modes, eigs, self, works_2, xd, ys, call, pc,
                   loopi, last, rhs, out>>

Aneg_ctx_mult(v) ==
    GlobalCall("Aneg_ctx", v, Aneg_mult(lgmap, self.Vnegs, self.DVnegs, v))
Apos_ctx_mult(v) ==
    GlobalCall("Apos_ctx", v, Apos_mult(lgmap, self.A, self.Vnegs, self.DVnegs, v))

\* ------------------------- the calls a process issues, one process at a time

\* One call: its name, and whether every process of the communicator must
\* reach it (an exchange over scatter_l2g, a product with the distributed A,
\* an operation of the coarse space) or it is local to the process.
Op(n, c) == [name |-> n, collective |-> c]
RECURSIVE Repeat(_, _)
Repeat(op, n) == IF n = 0 THEN <<>> ELSE Append(Repeat(op, n - 1), op)

\* Aneg_ctx.mult on rank r (lines 720-730): the two loops run over the
\* negative eigenvectors of the rank.
Aneg_ctx_ops(obj, r) ==
    <<Op("y.set", FALSE), Op("scatter_reverse", TRUE)>>
    \o Repeat(Op("works.dot", FALSE), Len(obj.DVnegs[r]))
    \o <<Op("works.set", FALSE)>>
    \o Repeat(Op("works.axpy", FALSE), Len(obj.Vnegs[r]))
    \o <<Op("scatter_add", TRUE)>>

\* A product with the operator of the coarse space: A for PCBNN, Apos for
\* PCNew (Apos_ctx.mult, lines 750-754: Aneg.mult, then A_mpiaij.mult).
Aop_ops(obj, r) ==
    IF obj.cls = "PCNew"
    THEN <<Op("x.duplicate", FALSE)>> \o Aneg_ctx_ops(obj, r)
         \o <<Op("A_mpiaij.mult", TRUE), Op("y.add", FALSE)>>
    ELSE <<Op("A_mpiaij.mult", TRUE)>>

\* project and project_transpose: one product with the operator and the
\* coarse solve.
proj_ops(obj, r, n) == Aop_ops(obj, r) \o <<Op(n, TRUE)>>

\* PCBNN.mult and PCNew.mult on rank r (lines 163-178).
mult_ops(o, obj, r) ==
    <<Op("x.copy", FALSE)>>
    \o (IF o.projCS = TRUE THEN proj_ops(obj, r, "project_transpose") ELSE <<>>)
    \o <<Op("scatter_reverse", TRUE), Op("ksp_Atildes.solve", FALSE),
         Op("y.set", FALSE), Op("scatter_add", TRUE)>>
    \o (IF o.projCS = TRUE THEN proj_ops(obj, r, "project") ELSE <<>>)
    \o (IF o.addCS = TRUE
          THEN <<Op("x.copy", FALSE), Op("coarse_init", TRUE), Op("y.add", FALSE)>>
          ELSE <<>>)

RECURSIVE MP_loopGuarded(_, _, _)
\* Variant of MP_loop: the exchange and the projection made by rank i only.
MP_loopGuarded(obj, r, n) ==
    IF n = 0 THEN <<>>
    ELSE MP_loopGuarded(obj, r, n - 1)
         \o <<Op("works_1.set", FALSE)>>
         \o (IF r = n - 1
               THEN <<Op("works_2.copy", FALSE), Op("y[i].set", FALSE),
                      Op("scatter_add", TRUE)>> \o proj_ops(obj, r, "project")
               ELSE <<>>)

RECURSIVE MP_loop(_, _, _)
\* The first n turns of the loop of lines 196-202 on rank r.
MP_loop(obj, r, n) ==
    IF n = 0 THEN <<>>
    ELSE MP_loop(obj, r, n - 1)
         \o <<Op("works_1.set", FALSE)>>
         \o (IF r = n - 1 THEN <<Op("works_2.copy", FALSE)>> ELSE <<>>)
         \o <<Op("y[i].set", FALSE), Op("scatter_add", TRUE)>>
         \o proj_ops(obj, r, "project")

\* PCBNN.MP_mult on rank r (lines 194-202); PCNew.MP_mult prints (line 688).
MP_mult_ops(obj, r) ==
    IF obj.cls = "PCNew" THEN <<Op("print", FALSE)>>
    ELSE <<Op("scatter_reverse", TRUE), Op("ksp_Atildes.solve", FALSE)>>
         \o MP_loop(obj, r, NProc)

\* The calls of rank r in method m.
OpsOf(m, r) ==
    CASE m = "mult" -> mult_ops(opts, self, r)
      [] m = "MP_mult" -> MP_mult_ops(self, r)
      [] m = "Aneg_ctx" -> Aneg_ctx_ops(self, r)

\* The methods that can be run on the object.
Methods == {"mult", "MP_mult"} \cup (IF self.cls = "PCNew" THEN {"Aneg_ctx"} ELSE {})

\* Every process enters method m; loopi[r] counts the calls rank r has
\* issued.
run_call(m) ==
    /\ call = "idle"
    /\ last = "none"
    /\ chk.op = "none"
    /\ m \in Methods
    /\ call' = "run"
    /\ chk' = [op |-> "run", method |-> m]
    /\ loopi' = [r \in Ranks |-> 0]
    /\ trace' = <<>>
    /\ UNCHANGED <<inputs, self, works_1, works_2, xd, y, ys, pc, last, rhs, out>>

\* Rank r issues a local call.
run_local(r) ==
    /\ call = "run"
    /\ loopi[r] < Len(OpsOf(chk.method, r))
    /\ ~OpsOf(chk.method, r)[loopi[r] + 1].collective
    /\ loopi' = [loopi EXCEPT ![r] = @ + 1]
    /\ UNCHANGED <<inputs, self, works_1, works_2, xd, y, ys, call, pc, last, trace,
                   rhs, chk, out>>

\* A collective call completes once every rank has reached it.
run_collective ==
    /\ call = "run"
    /\ \A r \in Ranks :
          /\ loopi[r] < Len(OpsOf(chk.method, r))
          /\ OpsOf(chk.method, r)[loopi[r] + 1].collective
          /\ OpsOf(chk.method, r)[loopi[r] + 1] = OpsOf(chk.method, 0)[loopi[0] + 1]
    /\ loopi' = [r \in Ranks |-> loopi[r] + 1]
    /\ trace' = Append(trace, Log(OpsOf(chk.method, 0)[loopi[0] + 1].name, "all", <<>>))
    /\ UNCHANGED <<inputs, self, works_1, works_2, xd, y, ys, call, pc, last, rhs,
                   chk, out>>

\* Every rank has issued its last call: the method returns.
run_return ==
    /\ call = "run"
    /\ \A r \in Ranks : loopi[r] = Len(OpsOf(chk.method, r))
    /\ call' = "idle"
    /\ last' = chk.method
    /\ UNCHANGED <<inputs, self, works_1, works_2, xd, y, ys, pc, loopi, trace, rhs,
                   chk, out>>

\* ------------------------------------------------------ specifications

\* The inputs the apply methods are run on: local matrices for which every
\* factorization exists.
ApplyMatsBNN ==
    { << <<2, -1>>, <<-1, 2>> >>,
      << <<1, 0>>, <<0, 3>> >> }

ApplyMatsNew ==
    { << <<1, 0>>, <<0, 2>> >>,
      << <<4, 0>>, <<0, -3>> >>,
      << <<11, -12>>, <<-12, 4>> >> }

Init == InitBNN(ApplyMatsBNN, BOOLEAN) \/ InitNew(ApplyMatsNew, {MaxNev}, {0}, BOOLEAN)

Next ==
    \/ PCBNN_init \/ PCNew_init
    \/ mult_call \/ mult_copy \/ mult_scatter \/ mult_solve
    \/ mult_gather \/ mult_project \/ mult_coarse
    \/ MP_mult_call \/ MP_scatter \/ MP_solve
    \/ MP_set \/ MP_gather \/ MP_project
    \/ PCNew_MP_mult

\* Construction followed by any number of calls of mult and MP_mult.
Spec == Init /\ [][Next]_vars

InitCons == InitBNN(LocalMatsBNN, {FALSE}) \/ InitNew(LocalMatsNew, {MaxNev}, Nat, {FALSE})
NextCons == PCBNN_init \/ PCNew_init

\* Construction alone, on every input.
SpecCons == InitCons /\ [][NextCons]_vars

\* Construction of PCBNN alone.
InitScale == InitBNN(LocalMatsBNN, {FALSE})
SpecScale == InitScale /\ [][PCBNN_init]_vars

\* Construction of PCNew in its default branch, whatever the eigensolver
\* returns for whatever number of pairs asked.
InitEig ==
    /\ InitNew(LocalMatsNew, 1..MaxNev, Nat, {FALSE})
    /\ opts.switchtoASM = FALSE
    /\ opts.GenEO = FALSE
SpecEig == InitEig /\ [][PCNew_init]_vars

\* Construction of PCNew followed by the checks of its local operators on
\* every test vector.
InitOps ==
    /\ InitNew(LocalMatsNew, {MaxNev}, Nat, {FALSE})
    /\ opts.switchtoASM = FALSE
    /\ opts.GenEO = FALSE
NextOps ==
    \/ PCNew_init
    \/ \E r \in Ranks : \E v \in LocalTests(NLoc(lgmap, r)) : check_signsplit(r, v)
    \/ \E r \in Ranks : \E v \in LocalTests(NLoc(lgmap, r)) : check_roundtrip(r, v)
SpecOps == InitOps /\ [][NextOps]_vars

\* A decomposition with an interface edge: rank 0 holds dofs 1, 2, 3 and
\* rank 1 holds dofs 2 and 3 (the further ranks follow as a chain).
DecompsEdge == { [r \in Ranks |-> IF r = 0 THEN <<1, 2, 3>> ELSE <<r + 1, r + 2>>] }

\* Local matrices of the rank holding three dofs.
LocalMatsEdge ==
    { << <<1, 0, 0>>, <<0, 11, -12>>, <<0, -12, 4>> >>,
      << <<1, 0, 0>>, <<0, 4, 0>>, <<0, 0, -3>> >>,
      << <<2, 0, 0>>, <<0, 1, 0>>, <<0, 0, 1>> >> }

\* Construction of PCNew on decompositions where subdomains share one dof
\* or a pair of dofs, GenEO off.
InitSplit ==
    /\ lgmap \in Decomps \cup DecompsEdge
    /\ ANeus \in {N \in [Ranks -> LocalMatsNew \cup LocalMatsEdge] :
                    \A r \in Ranks : Len(N[r]) = NLoc(lgmap, r)}
    /\ \E c \in EigChoices(lgmap, ANeus, {0}, NProc) : eigs = [r \in Ranks |-> c[r + 1]]
    /\ opts \in [cls : {"PCNew"}, switchtoASM : BOOLEAN, kscaling : {TRUE},
                 GenEO : {FALSE}, addCS : {FALSE}, projCS : {FALSE}, nev : {MaxNev}]
    /\ InitCommon
SpecSplit == InitSplit /\ [][PCNew_init]_vars

\* Construction of PCNew followed by one call of one of its matrix-free
\* operators.
InitCtx ==
    /\ InitNew(LocalMatsNew, {MaxNev}, Nat, {FALSE})
    /\ opts.switchtoASM = FALSE
    /\ opts.GenEO = FALSE
NextCtx ==
    \/ PCNew_init
    \/ \E r \in Ranks : \E v \in LocalTests(NLoc(lgmap, r)) :
          \/ Anegs_ctx_mult(r, v) \/ Aposs_ctx_mult(r, v)
          \/ projVnegs_ctx_mult(r, v) \/ projVposs_ctx_mult(r, v)
          \/ invAposs_ctx_apply(r, v) \/ scaledmats_ctx_mult(r, v)
    \/ \E v \in XInputs : Aneg_ctx_mult(v) \/ Apos_ctx_mult(v)
SpecCtx == InitCtx /\ [][NextCtx]_vars

\* Construction, then one method run process by process.
InitRun ==
    /\ InitBNN(ApplyMatsBNN, BOOLEAN) \/ InitNew(ApplyMatsNew, {MaxNev}, Nat, BOOLEAN)
    /\ opts.switchtoASM = FALSE
    /\ opts.GenEO = FALSE
    /\ opts.kscaling = TRUE
NextRun ==
    \/ PCBNN_init \/ PCNew_init
    \/ \E m \in {"mult", "MP_mult", "Aneg_ctx"} : run_call(m)
    \/ \E r \in Ranks : run_local(r)
    \/ run_collective
    \/ run_return
SpecRun == InitRun /\ [][NextRun]_vars

\* ------------------------------------------------------------ properties

Returned(m) == call = "idle" /\ last = m
TraceOps == [k \in 1..Len(trace) |-> trace[k][1]]
IsPrefix(s, t) == Len(s) <= Len(t) /\ s = SubSeq(t, 1, Len(s))
Restriction(g, r) == [k \in 1..Len(lgmap[r]) |-> g[lgmap[r][k]]]

\* The steps of mult for the flags o.
MultSteps(o) ==
    (IF o.projCS = TRUE THEN <<"project_transpose">> ELSE <<>>)
    \o <<"scatter_reverse", "solve", "set_zero", "scatter_add">>
    \o (IF o.projCS = TRUE THEN <<"project">> ELSE <<>>)
    \o (IF o.addCS = TRUE THEN <<"coarse_init">> ELSE <<>>)

\* C1: mult (PCBNN and PCNew) performs, in this order, project_transpose on
\* the copy of x iff projCS, the reverse exchange of that copy, one local
\* solve, the zeroing of y and the additive exchange, project(y) iff projCS,
\* and y += coarse_init(x) iff addCS, x being the vector passed to the call;
\* with both flags off no projection and no coarse operation is made.
C1_MultSteps ==
    /\ call = "mult" => IsPrefix(TraceOps, MultSteps(opts))
    /\ Returned("mult") =>
          /\ TraceOps = MultSteps(opts)
          /\ \A k \in 1..Len(trace) :
                /\ trace[k][1] \in {"project_transpose", "coarse_init"} => trace[k][3] = x
                /\ trace[k][1] = "scatter_reverse" =>
                      trace[k][3] = IF opts.projCS = TRUE
                                    THEN project_transpose(self.proj, x) ELSE x
          /\ (opts.projCS = FALSE /\ opts.addCS = FALSE) =>
                TraceOps = <<"scatter_reverse", "solve", "set_zero", "scatter_add">>

\* mult has returned with both flags set, on an x the projection changes.
C1_Witness ==
    /\ Returned("mult")
    /\ opts.projCS = TRUE /\ opts.addCS = TRUE
    /\ Len(trace) = 7
    /\ project_transpose(self.proj, x) # x

\* The local solution of rank i for the right-hand side x.
LocalSolution(i) == ksp_Atildes_solve(self, i, Restriction(x, i))

\* C2: after PCBNN.MP_mult, for every flag setting, every y[i] is project
\* applied to the additive spread of the local solution of subdomain i alone:
\* the other subdomains contribute the zero vector.
C2_MPOutputs ==
    (Returned("MP_mult") /\ self.cls = "PCBNN") =>
        \A i \in Ranks :
            ys[i] = project(self.proj, Spread(lgmap, i, LocalSolution(i)))

\* PCBNN.MP_mult has returned outputs that differ from one another, and from
\* the unprojected spreads.
C2_Witness ==
    /\ Returned("MP_mult") /\ self.cls = "PCBNN"
    /\ \A i, j \in Ranks : i # j => ys[i] # ys[j]
    /\ \A i \in Ranks : ys[i] # Spread(lgmap, i, LocalSolution(i))
    /\ \A i \in Ranks : ys[i] # VConst(NDof, Zero)

BothSolved == \A r \in Ranks : rhs["mult"][r] # None /\ rhs["MP_mult"][r] # None
SolveCount == Cardinality({k \in 1..Len(trace) : trace[k][1] = "solve"})

\* C3 (amended): in either method of PCBNN every process makes exactly one
\* local solve; the right-hand side of MP_mult is the restriction of x, that
\* of mult the restriction of x when projCS is off and of project_transpose(x)
\* when it is on: the two are identical when projCS is off.
C3_SameSystemWithoutProjection ==
    self.cls = "PCBNN" =>
        /\ (Returned("mult") \/ Returned("MP_mult")) => SolveCount = 1
        /\ BothSolved =>
              \A r \in Ranks :
                  /\ rhs["MP_mult"][r] = Restriction(x, r)
                  /\ rhs["mult"][r] = Restriction(IF opts.projCS = TRUE
                                                  THEN project_transpose(self.proj, x)
                                                  ELSE x, r)
                  /\ opts.projCS = FALSE => rhs["MP_mult"][r] = rhs["mult"][r]

\* Both methods of PCBNN have been called with projCS off.
C3_Witness ==
    /\ self.cls = "PCBNN" /\ BothSolved /\ opts.projCS = FALSE
    /\ \A r \in Ranks : rhs["MP_mult"][r] = rhs["mult"][r]
    /\ \E r \in Ranks : rhs["mult"][r] # VConst(Len(lgmap[r]), Zero)

\* C3 as stated: for the same x and flags the right-hand side of MP_mult is
\* the one of mult.
C3_Original ==
    (self.cls = "PCBNN" /\ BothSolved) =>
        \A r \in Ranks : rhs["MP_mult"][r] = rhs["mult"][r]

\* C4 as stated: after PCNew.MP_mult every y[i] is the projected spread of
\* the local solve of subdomain i with the scaled composite solver.
C4_Original ==
    (Returned("MP_mult") /\ self.cls = "PCNew") =>
        \A i \in Ranks :
            ys[i] = project(self.proj, Spread(lgmap, i, LocalSolution(i)))

Built(c) == call # "new" /\ self.cls = c
\* The number of subdomains sharing the local dof k of rank r.
MultOf(r, k) == Cardinality(Sharing(lgmap, lgmap[r][k]))
\* The local index of global dof g on rank r.
LocalIndex(r, g) == CHOOSE k \in 1..Len(lgmap[r]) : lgmap[r][k] = g
SharedDofs == {g \in Dofs : Cardinality(Sharing(lgmap, g)) >= 2}
\* The sum over the sharing subdomains of the diagonal entry of Ms at dof g.
ScaledDiagSum(g) ==
    SumSet([r \in Ranks |-> IF r \in Sharing(lgmap, g)
                             THEN self.Ms[r][LocalIndex(r, g)][LocalIndex(r, g)]
                             ELSE Zero], Ranks)

\* C5 (amended): without k-scaling, PCBNN construction scales the local
\* matrix by the multiplicity on each side: the scaled entry is
\* Ms[i,j] * mult[i] * mult[j], mult[i] the number of subdomains sharing dof i.
C5_ScaledByMultiplicity ==
    (Built("PCBNN") /\ opts.kscaling = FALSE) =>
        \A r \in Ranks : \A k, l \in 1..Len(lgmap[r]) :
            self.Ms[r][k][l] = RMul(R(ANeus[r][k][l]), R(MultOf(r, k) * MultOf(r, l)))

\* PCBNN is built without k-scaling and a nonzero entry sits on a shared dof.
C5_Witness ==
    /\ Built("PCBNN") /\ opts.kscaling = FALSE
    /\ \E r \in Ranks : \E k, l \in 1..Len(lgmap[r]) :
          /\ MultOf(r, k) * MultOf(r, l) > 1
          /\ ANeus[r][k][l] # 0
          /\ self.Ms[r][k][l] # R(ANeus[r][k][l])

\* C5 as stated: the scaled entry is Ms[i,j] / (mult[i] * mult[j]).
C5_Original ==
    (Built("PCBNN") /\ opts.kscaling = FALSE) =>
        \A r \in Ranks : \A k, l \in 1..Len(lgmap[r]) :
            self.Ms[r][k][l] = RDiv(R(ANeus[r][k][l]), R(MultOf(r, k) * MultOf(r, l)))

\* The reciprocal of the factor rank r applies at its local dof k, from what
\* the object holds: 1/multiplicity, Ms[k,k]/As[k,k] with k-scaling.
Weight(r, k) ==
    IF opts.kscaling = FALSE THEN RDiv(One, self.vlocal[r][k])
    ELSE RDiv(R(ANeus[r][k][k]), self.As[r][k][k])

\* C6 (amended): at a dof shared by m subdomains the diagonal entries of the
\* scaled local operators sum to m*m times the diagonal entry of A under
\* multiplicity scaling, and each of them is A[i,i]^2 / Ms[i,i] under
\* k-scaling; what sums to one over the sharing subdomains, under both
\* policies, is the reciprocal of the scaling factor.
C6_ScaledDiagonal ==
    Built("PCBNN") =>
        \A g \in SharedDofs :
            LET m == Cardinality(Sharing(lgmap, g))
            IN  /\ opts.kscaling = FALSE => ScaledDiagSum(g) = RMul(R(m * m), self.A[g][g])
                /\ opts.kscaling = TRUE =>
                      \A r \in Sharing(lgmap, g) :
                          LET k == LocalIndex(r, g)
                          IN  RMul(self.Ms[r][k][k], R(ANeus[r][k][k]))
                                  = RMul(self.A[g][g], self.A[g][g])
                /\ SumSet([r \in Ranks |-> IF r \in Sharing(lgmap, g)
                                            THEN Weight(r, LocalIndex(r, g))
                                            ELSE Zero], Ranks) = One

\* PCBNN is built with k-scaling on subdomains whose diagonal entries at a
\* shared dof differ.
C6_Witness ==
    /\ Built("PCBNN") /\ opts.kscaling = TRUE
    /\ \E g \in SharedDofs : \E r, q \in Sharing(lgmap, g) :
          ANeus[r][LocalIndex(r, g)][LocalIndex(r, g)]
              # ANeus[q][LocalIndex(q, g)][LocalIndex(q, g)]

\* C6 as stated: at every shared dof the diagonal entries of the scaled local
\* operators sum to the diagonal entry of A.
C6_Original ==
    Built("PCBNN") => \A g \in SharedDofs : ScaledDiagSum(g) = self.A[g][g]

\* C7: for every local x, <Bs x, x> = <Aposs x, x> - <Anegs x, x> and
\* <Anegs x, x> >= 0, Anegs and Aposs as their contexts apply them on the
\* eigenpairs collected at construction.
C7_SignSplit ==
    chk.op = "signsplit" =>
        /\ chk.Bs = RSub(chk.Aposs, chk.Anegs)
        /\ RLe(Zero, chk.Anegs)

\* The check ran on a vector of negative Bs-energy with a retained negative
\* eigenvector that is no coordinate vector.
C7_Witness ==
    /\ chk.op = "signsplit"
    /\ RLt(chk.Bs, Zero) /\ RLt(Zero, chk.Anegs)
    /\ \E i \in 1..Len(self.Vnegs[chk.rank]) :
          \A k \in 1..Len(chk.x) : self.Vnegs[chk.rank][i][k] # Zero

\* C8: with T = scaledmats_ctx(Aposs, mus, mus) and
\* S = scaledmats_ctx(invAposs, invmus, invmus), T(S(T x)) = T x for every
\* local x, the negative eigenvectors being orthonormal and Bs invertible.
C8_RoundTrip ==
    chk.op = "roundtrip" => chk.TSTx = chk.Tx

\* The check ran where a negative eigenvector is retained, the scaling is
\* not the identity and S does not give x back.
C8_Witness ==
    /\ chk.op = "roundtrip"
    /\ Len(self.Vnegs[chk.rank]) > 0
    /\ \E k \in 1..Len(chk.x) : self.mus[chk.rank][k] # One
    /\ chk.STx # chk.x
    /\ chk.Tx # VConst(Len(chk.x), Zero)

Diagnostic(r) ==
    [msg |-> "eigenvalues converged (less that the requested)", rank |-> r,
     converged |-> Len(eigs[r]), nev |-> opts.nev]

\* C9: when the eigensolver on Bs converges c < nev pairs (c = 0 included),
\* PCNew construction prints a diagnostic naming the subdomain, c and nev,
\* goes on to its end, reads the c converged pairs only and ends with at most
\* c vectors in Vnegs.
C9_UnderConvergence ==
    Built("PCNew") =>
        \A r \in Ranks :
            Len(eigs[r]) < opts.nev =>
                /\ Diagnostic(r) \in out
                /\ call = "idle"
                /\ self.proj.cols = CoarseCols(lgmap, self.V0s)
                /\ self.read[r] \subseteq 1..Len(eigs[r])
                /\ Len(self.Vnegs[r]) <= Len(eigs[r])

\* PCNew is built where nothing converged on one subdomain and, on another,
\* fewer pairs than asked, a negative one among them.
C9_Witness ==
    /\ Built("PCNew")
    /\ \E r, q \in Ranks :
          /\ Len(eigs[r]) = 0 /\ Diagnostic(r) \in out
          /\ Len(eigs[q]) > 0 /\ Len(eigs[q]) < opts.nev /\ Len(self.Vnegs[q]) > 0

\* C10 (amended): V0s is never empty after construction of PCBNN, and of
\* PCNew with switchtoASM; in the default branch of PCNew the basis of a
\* subdomain is its scaled negative eigenvectors, followed by the GenEO modes
\* when GenEO is on, and is empty exactly when no converged eigenpair is
\* negative and GenEO adds nothing.
C10_CoarseBasis ==
    self.cls # "none" =>
        \A r \in Ranks :
            /\ (self.cls = "PCBNN" \/ opts.switchtoASM) => self.V0s[r] # <<>>
            /\ (self.cls = "PCNew" /\ ~opts.switchtoASM) =>
                  (self.V0s[r] = <<>>
                      <=> (Len(self.Vnegs[r]) = 0 /\ (opts.GenEO = FALSE \/ modes[r] = <<>>)))

\* PCNew is built in its default branch, GenEO off, every pair asked for
\* converged, and a subdomain has an empty basis.
C10_Witness ==
    /\ Built("PCNew") /\ ~opts.switchtoASM /\ opts.GenEO = FALSE
    /\ \E r \in Ranks : self.V0s[r] = <<>> /\ Len(eigs[r]) >= opts.nev

\* C10 as stated: after construction of either preconditioner V0s is never
\* empty.
C10_Original ==
    self.cls # "none" => \A r \in Ranks : self.V0s[r] # <<>>

Warning(r) ==
    [msg |-> "GenEO coarse space for this Atildes is not implemented yet", rank |-> r]
RECURSIVE TotalLen(_, _)
\* The number of vectors of the per-rank lists f on the first n ranks.
TotalLen(f, n) == IF n = 0 THEN 0 ELSE TotalLen(f, n - 1) + Len(f[n - 1])

Without(M, k) ==
    [i \in 1..(Len(M) - 1) |-> [j \in 1..(Len(M) - 1) |->
        M[IF i < k THEN i ELSE i + 1][IF j < k THEN j ELSE j + 1]]]
RECURSIVE IsPSD(_)
\* M is symmetric positive semi-definite: every principal minor is >= 0.
IsPSD(M) ==
    \/ Len(M) = 0
    \/ /\ IsSymmetric(M)
       /\ RLe(Zero, Det(M))
       /\ \A k \in 1..Len(M) : IsPSD(Without(M, k))
HasNegativeEigenvalue(M) == \E p \in EigPairs(M) : RLt(p[1], Zero)

\* C12 (amended): every local matrix handed to Cholesky during construction
\* is symmetric.  PCBNN hands Atildes only, positive semi-definite as the
\* local matrices it is built from.  PCNew hands Bs itself, before any sign
\* splitting, and Bs is indefinite whenever it has a negative eigenvalue; with
\* switchtoASM it hands As as well; Aposs is never handed to Cholesky.
C12_HandedToCholesky ==
    self.cls # "none" =>
        \A r \in Ranks :
            /\ \A i \in 1..Len(self.handed[r]) : IsSymmetric(self.handed[r][i])
            /\ self.cls = "PCBNN" =>
                  /\ self.handed[r] = <<self.Atildes[r], self.Atildes[r]>>
                  /\ IsPSD(self.Atildes[r])
            /\ self.cls = "PCNew" =>
                  /\ self.handed[r] = <<self.Bs[r]>>
                        \o (IF opts.switchtoASM THEN <<self.As[r], self.As[r]>> ELSE <<>>)
                  /\ HasNegativeEigenvalue(self.Bs[r]) <=> ~IsPSD(self.Bs[r])

\* PCNew is built in its default branch and has factorized a Bs that is
\* indefinite, a negative eigenvector of it retained.
C12_Witness ==
    /\ Built("PCNew") /\ ~opts.switchtoASM
    /\ \E r \in Ranks :
          /\ self.handed[r] = <<self.Bs[r]>>
          /\ ~IsPSD(self.Bs[r]) /\ \E k \in 1..Len(self.Bs[r]) : RLt(Zero, self.Bs[r][k][k])
          /\ self.Bs_ksp[r] # <<>>
          /\ Len(self.Vnegs[r]) > 0

\* C12 as stated: every local matrix handed to Cholesky during construction
\* of PCBNN or PCNew is symmetric positive (semi-)definite.
C12_Original ==
    self.cls # "none" =>
        \A r \in Ranks : \A i \in 1..Len(self.handed[r]) : IsPSD(self.handed[r][i])

\* The subdomains holding both global dofs i and j.
PairHolders(i, j) == Sharing(lgmap, i) \cap Sharing(lgmap, j)
\* The sum of Bs[i,j] over the subdomains holding both i and j.
BsSum(i, j) ==
    SumSet([r \in Ranks |-> IF r \in PairHolders(i, j)
                             THEN self.Bs[r][LocalIndex(r, i)][LocalIndex(r, j)]
                             ELSE Zero], Ranks)

\* C13 as stated: for every pair (i, j) of dofs, the sum of Bs[i,j] over all
\* subdomains holding both i and j equals A[i,j].
C13_Original ==
    Built("PCNew") =>
        \A i, j \in Dofs : PairHolders(i, j) # {} => BsSum(i, j) = self.A[i][j]

\* The matrix of Aposs_ctx on rank r, column by column.
ApossMat(r) ==
    Transpose([l \in 1..Len(self.Bs[r]) |->
        Aposs_mult(self.Bs[r], self.Vnegs[r], self.DVnegs[r], Unit(Len(self.Bs[r]), l))])
\* The number of negative eigenvalues of M, with their multiplicity.
NegCount(M) ==
    LET b == CHOOSE b \in EigenBases(M) : TRUE
    IN  Cardinality({i \in 1..Len(M) : RLt(b[i][1], Zero)})

NegPairs(r) ==
    LET idx == NegIdx(eigs[r], Len(eigs[r]))
    IN  [k \in 1..Len(idx) |-> eigs[r][idx[k]]]
RECURSIVE SpectralSum(_, _, _, _)
\* sum over the first n pairs <<lambda, v>> of (xx . v) * (s * lambda) * v.
SpectralSum(s, pairs, n, xx) ==
    IF n = 0 THEN VConst(Len(xx), Zero)
    ELSE VAdd(SpectralSum(s, pairs, n - 1, xx),
              VScale(RMul(Dot(xx, pairs[n][2]), RMul(s, pairs[n][1])), pairs[n][2]))
AnegsOf(s, r, xx) == SpectralSum(s, NegPairs(r), Len(NegPairs(r)), xx)

\* C15 (amended): Anegs_ctx.mult computes y = sum over the negative
\* eigenpairs i of (x . v_i) * (-lambda_i) * v_i = sum (x . v_i) |lambda_i| v_i,
\* lambda_i the i-th negative eigenvalue returned and v_i its eigenvector;
\* Aneg_ctx.mult leaves the same sum, taken on the restriction of x, in the
\* local vector of every subdomain, and adds these up into y.
C15_AnegsFormula ==
    /\ chk.op = "Anegs_ctx" => chk.y = AnegsOf(R(-1), chk.rank, chk.x)
    /\ chk.op = "Aneg_ctx" =>
          /\ \A r \in Ranks :
                works_1[r] = AnegsOf(R(-1), r, ScatterReverse(lgmap, x, r))
          /\ y = ScatterAdd(lgmap, works_1, VConst(NDof, Zero))

\* Anegs_ctx.mult was called with a nonzero result on a subdomain that
\* retained a negative eigenvector that is no coordinate vector.
C15_Witness ==
    /\ chk.op = "Anegs_ctx"
    /\ chk.y # VConst(Len(chk.x), Zero)
    /\ \E i \in 1..Len(self.Vnegs[chk.rank]) :
          \A k \in 1..Len(chk.x) : self.Vnegs[chk.rank][i][k] # Zero

\* C15 as stated: y = sum (x . v_i) * lambda_i * v_i, lambda_i the negative
\* eigenvalue.
C15_Original ==
    /\ chk.op = "Anegs_ctx" => chk.y = AnegsOf(One, chk.rank, chk.x)
    /\ chk.op = "Aneg_ctx" =>
          \A r \in Ranks : works_1[r] = AnegsOf(One, r, ScatterReverse(lgmap, x, r))

\* C16: after the multiplicity computation of PCBNN construction every
\* local entry of vlocal is the number of subdomains sharing that dof, and
\* mult_max is the maximum of this number over all global dofs.
C16_Multiplicity ==
    Built("PCBNN") =>
        /\ \A r \in Ranks : \A k \in 1..Len(lgmap[r]) :
              self.vlocal[r][k] = R(MultOf(r, k))
        /\ \E g \in Dofs : self.mult_max = R(Cardinality(Sharing(lgmap, g)))
        /\ \A g \in Dofs : RLe(R(Cardinality(Sharing(lgmap, g))), self.mult_max)

\* PCBNN is built on a decomposition where one dof is shared by every
\* subdomain and the others belong to one subdomain each.
C16_Witness ==
    /\ Built("PCBNN")
    /\ self.mult_max = R(NProc)
    /\ \E r \in Ranks : \E k, l \in 1..Len(lgmap[r]) :
          self.vlocal[r][k] = R(NProc) /\ self.vlocal[r][l] = One

LocalContexts ==
    {"Anegs_ctx", "Aposs_ctx", "scaledmats_ctx", "invAposs_ctx", "projVnegs_ctx", "projVposs_ctx"}
GlobalContexts == {"Aneg_ctx", "Apos_ctx"}

\* C17 (amended): a call of Anegs_ctx, Aposs_ctx, scaledmats_ctx,
\* invAposs_ctx, projVnegs_ctx or projVposs_ctx writes its output only and
\* leaves works_1 and works_2 as they were.  A call of Aneg_ctx.mult, and of
\* Apos_ctx.mult which calls it, leaves its input x and works_2 as they were
\* but overwrites works_1, the local work vector of the preconditioner, with
\* the local result of Aneg on the restriction of x.
C17_Frame ==
    /\ chk.op \in LocalContexts =>
          works_1 = chk.works_1 /\ works_2 = StaleLocal(lgmap)
    /\ chk.op \in GlobalContexts =>
          /\ x = chk.x
          /\ works_2 = StaleLocal(lgmap)
          /\ works_1 # chk.works_1
          /\ \A r \in Ranks :
                works_1[r] = AnegsOf(R(-1), r, ScatterReverse(lgmap, x, r))

\* Apos_ctx.mult was called where a negative eigenvector is retained, and
\* has left a nonzero local result in works_1.
C17_Witness ==
    /\ chk.op = "Apos_ctx"
    /\ \E r \in Ranks :
          /\ Len(self.Vnegs[r]) > 0
          /\ works_1[r] # chk.works_1[r]
          /\ works_1[r] # VConst(Len(works_1[r]), Zero)
          /\ works_1[r] # ScatterReverse(lgmap, x, r)

\* C17 as stated: one call of any of the operators leaves its input and
\* every vector of the preconditioner, works_1 included, unchanged.
C17_Original ==
    chk.op \in LocalContexts \cup GlobalContexts =>
        /\ works_1 = chk.works_1
        /\ works_2 = StaleLocal(lgmap)
        /\ chk.op \in GlobalContexts => x = chk.x

RECURSIVE Collectives(_, _)
\* The collective calls among the first n calls of ops, in their order.
Collectives(ops, n) ==
    IF n = 0 THEN <<>>
    ELSE Collectives(ops, n - 1)
         \o (IF ops[n].collective THEN <<ops[n].name>> ELSE <<>>)
AllCollectives(m, r) == Collectives(OpsOf(m, r), Len(OpsOf(m, r)))
\* Rank r waits at a collective call.
Waiting(r) ==
    /\ loopi[r] < Len(OpsOf(chk.method, r))
    /\ OpsOf(chk.method, r)[loopi[r] + 1].collective
\* The number of scatter calls of a method, from the class, the flags and the
\* number of processes.
ScatterCount(m) ==
    LET A == IF self.cls = "PCNew" THEN 2 ELSE 0
        P == IF opts.projCS = TRUE THEN 2 * A ELSE 0
    IN  CASE m = "mult" -> 2 + P
          [] m = "MP_mult" -> IF self.cls = "PCNew" THEN 0 ELSE 1 + NProc
          [] m = "Aneg_ctx" -> 2
IsScatter(n) == n \in {"scatter_reverse", "scatter_add"}

\* C18: in PCBNN.mult, PCBNN.MP_mult, PCNew.mult and Aneg_ctx.mult every
\* process issues the same sequence of collective calls, the number of
\* exchanges being fixed by the class, the flags and the number of processes,
\* whatever the number of negative eigenvectors of the process and its rank;
\* no process waits at a collective call for a process that has returned, and
\* as long as the method has not returned a process has a local call to
\* issue or all of them wait at the same collective call.
C18_SameCollectives ==
    call = "run" =>
        /\ \A r \in Ranks :
              /\ AllCollectives(chk.method, r) = AllCollectives(chk.method, 0)
              /\ Cardinality({k \in 1..Len(AllCollectives(chk.method, r)) :
                                 IsScatter(AllCollectives(chk.method, r)[k])})
                    = ScatterCount(chk.method)
              /\ Collectives(OpsOf(chk.method, r), loopi[r]) = TraceOps
        /\ \A r, q \in Ranks : Waiting(r) => loopi[q] < Len(OpsOf(chk.method, q))
        /\ \/ \E r \in Ranks : loopi[r] < Len(OpsOf(chk.method, r)) /\ ~Waiting(r)
           \/ \A r \in Ranks :
                 /\ Waiting(r)
                 /\ OpsOf(chk.method, r)[loopi[r] + 1] = OpsOf(chk.method, 0)[loopi[0] + 1]
           \/ \A r \in Ranks : loopi[r] = Len(OpsOf(chk.method, r))

\* Aneg_ctx.mult has returned on subdomains with different numbers of
\* negative eigenvectors: the processes issued different numbers of calls
\* and the same two exchanges.
C18_Witness ==
    /\ call = "idle" /\ last = "Aneg_ctx"
    /\ \E r, q \in Ranks :
          /\ Len(self.Vnegs[r]) # Len(self.Vnegs[q])
          /\ loopi[r] # loopi[q]
    /\ TraceOps = <<"scatter_reverse", "scatter_add">>

====
